---- MODULE Spec2Model ----
(***************************************************************************)
(* Model of src/example_client.py: the GeneratorClient session (connect,   *)
(* send_command, close), the demonstration driver main(), and the stream   *)
(* connection to the engine they talk to.                                  *)
(*                                                                         *)
(* Two specifications share the state:                                     *)
(*   Spec     the run of main(): connect, the eight commands, close;       *)
(*   ApiSpec  a caller that invokes connect / send_command / close on one  *)
(*            GeneratorClient in any order.                                *)
(*                                                                         *)
(* send_command blocks in socket.recv, so it is modelled in two steps: the *)
(* entry (guard, print, socket.send) and the completion of recv (data,     *)
(* timeout, fault, end of stream) followed by decoding and the return to   *)
(* the caller.                                                             *)
(*                                                                         *)
(* KeyboardInterrupt is delivered while control is inside the try body of  *)
(* main() (lines 72-113), also while send_command is blocked in recv; a    *)
(* signal that arrives while the except or finally clause itself runs is   *)
(* outside the model.                                                      *)
(***************************************************************************)
EXTENDS Integers, Sequences, FiniteSets, TLC

VARIABLES
    socket,      \* self.socket: "None", or the socket object's condition
    link,        \* the TCP connection: "down", "up", "reset", "eof"
    unanswered,  \* ids of commands written and not yet answered by the engine
    wire,        \* reply bytes in flight from the engine, tagged by command
    rcvbuf,      \* reply bytes arrived in the socket's receive buffer
    nwritten,    \* number of commands written to a connection so far
    sc,          \* position inside send_command: "idle" or "recv"
    cur,         \* the current / last send_command call
    issued,      \* texts passed to send_command, in call order
    faulted,     \* a send or recv on the connection raised an I/O fault
    closeCalls,  \* number of close() calls
    sockCloses,  \* number of socket.close() calls
    lastClose,   \* what the last close() call found and did
    connectFailed, \* the last connect() returned False
    pc,          \* position of main(), or "api" under ApiSpec
    step,        \* index of the next command of main()
    intr,        \* KeyboardInterrupt has been raised in main()
    exitCode,    \* -1 while running, else the process's exit status
    ncalls       \* number of API calls made under ApiSpec

vars == <<socket, link, unanswered, wire, rcvbuf, nwritten, sc, cur, issued,
          faulted, closeCalls, sockCloses, lastClose, connectFailed, pc, step, intr,
          exitCode, ncalls>>

netvars == <<link, unanswered, wire, rcvbuf>>
mainvars == <<pc, step, intr, exitCode>>

----------------------------------------------------------------------------
\* Bounds of the model

MaxBacklog == 3      \* reply bytes the engine may have in flight or buffered
MaxCalls == 4        \* API calls of the caller under ApiSpec

\* Program constants

BUFSIZE == 1024      \* socket.recv(1024)

Steps == <<"status", "start", "status", "set_load 50",
           "status", "set_load 10", "stop", "status">>

SleepAfter == {2, 4} \* time.sleep follows the 2nd and the 4th command

----------------------------------------------------------------------------
\* Bytes and reply payloads.  A byte is an ASCII character or one of the two
\* bytes of the UTF-8 encoding of U+00E9.

Ascii == {"{", "}", "[", "]", ",", ":", "\"", " ", "-", "+", ".",
          "0", "1", "2", "3", "4", "5", "6", "7", "8", "9",
          "a", "d", "e", "f", "g", "i", "l", "n", "o", "r", "s", "t", "u", "y",
          "E", "I", "K", "N", "O"}

Replies == { <<"{", "}">>, <<"O", "K">>, <<"C3", "A9">> }

ApiCommands == {"status", "stop"}

Min(a, b) == IF a < b THEN a ELSE b

Tagged(id, payload) == [i \in 1..Len(payload) |-> [c |-> id, b |-> payload[i]]]

Bytes(tagged) == [i \in 1..Len(tagged) |-> tagged[i].b]

\* bytes.decode('utf-8'): ok = FALSE stands for UnicodeDecodeError
RECURSIVE Utf8Decode(_)
Utf8Decode(b) ==
    IF b = <<>> THEN [ok |-> TRUE, text |-> <<>>]
    ELSE IF Head(b) \in Ascii
         THEN LET r == Utf8Decode(Tail(b))
              IN  [ok |-> r.ok, text |-> IF r.ok THEN <<Head(b)>> \o r.text ELSE <<>>]
    ELSE IF Head(b) = "C3" /\ Len(b) >= 2 /\ b[2] = "A9"
         THEN LET r == Utf8Decode(SubSeq(b, 3, Len(b)))
              IN  [ok |-> r.ok, text |-> IF r.ok THEN <<"U+00E9">> \o r.text ELSE <<>>]
    ELSE [ok |-> FALSE, text |-> <<>>]

\* json.loads.  A text is a sequence of characters; a decoded value is
\* written as a sequence of tokens: "None", "True", "False",
\* "int" digits "/int", "float" literal "/float", "str" characters "/str",
\* "list" items "/list", "dict" (key value)* "/dict".  The alphabet has no
\* backslash and no control character, so a string runs to the next quote.
\* With py = TRUE the scanner also accepts NaN, Infinity and -Infinity, as
\* json.loads does; with py = FALSE it accepts the JSON grammar only.

WS == {" ", "\t", "\n", "\r"}

DigitChars == {"0", "1", "2", "3", "4", "5", "6", "7", "8", "9"}

At(s, i) == IF i >= 1 /\ i <= Len(s) THEN s[i] ELSE ""

HasAt(s, i, w) == i + Len(w) - 1 <= Len(s) /\ SubSeq(s, i, i + Len(w) - 1) = w

RECURSIVE SkipWs(_, _)
SkipWs(s, i) == IF At(s, i) \in WS THEN SkipWs(s, i + 1) ELSE i

RECURSIVE SkipDigits(_, _)
SkipDigits(s, i) == IF At(s, i) \in DigitChars THEN SkipDigits(s, i + 1) ELSE i

RECURSIVE FindQuote(_, _)
FindQuote(s, i) ==
    IF i > Len(s) THEN 0 ELSE IF s[i] = "\"" THEN i ELSE FindQuote(s, i + 1)

ParseFail == [ok |-> FALSE, v |-> <<>>, i |-> 0]

Parsed(v, i) == [ok |-> TRUE, v |-> v, i |-> i]

ScanString(s, i) ==
    LET j == FindQuote(s, i + 1)
    IN  IF j = 0 THEN ParseFail
        ELSE Parsed(<<"str">> \o SubSeq(s, i + 1, j - 1) \o <<"/str">>, j + 1)

\* (-?(?:0|[1-9]\d*))(\.\d+)?([eE][-+]?\d+)?
\* the end of the integer part that starts at a, 0 when there is none
IntEnd(s, a) ==
    IF At(s, a) = "0" THEN a + 1
    ELSE IF At(s, a) \in DigitChars THEN SkipDigits(s, a) ELSE 0

FracEnd(s, b) ==
    IF At(s, b) = "." /\ At(s, b + 1) \in DigitChars
    THEN SkipDigits(s, b + 1) ELSE b

ExpDigits(s, c) == IF At(s, c + 1) \in {"+", "-"} THEN c + 2 ELSE c + 1

ExpEnd(s, c) ==
    IF At(s, c) \in {"e", "E"} /\ At(s, ExpDigits(s, c)) \in DigitChars
    THEN SkipDigits(s, ExpDigits(s, c)) ELSE c

IntLiteral(lit) == IF lit = <<"-", "0">> THEN <<"0">> ELSE lit

Number(s, i, b, e) ==
    IF b = 0 THEN ParseFail
    ELSE IF e = b
    THEN Parsed(<<"int">> \o IntLiteral(SubSeq(s, i, b - 1)) \o <<"/int">>, b)
    ELSE Parsed(<<"float">> \o SubSeq(s, i, e - 1) \o <<"/float">>, e)

NumberFrom(s, i, b) == Number(s, i, b, ExpEnd(s, FracEnd(s, b)))

ScanNumber(s, i) ==
    NumberFrom(s, i, IntEnd(s, IF At(s, i) = "-" THEN i + 1 ELSE i))

\* the constants json.loads accepts beyond the JSON grammar
ScanConstant(s, i, py) ==
    IF py /\ HasAt(s, i, <<"N", "a", "N">>)
    THEN Parsed(<<"float", "nan", "/float">>, i + 3)
    ELSE IF py /\ HasAt(s, i, <<"I", "n", "f", "i", "n", "i", "t", "y">>)
    THEN Parsed(<<"float", "inf", "/float">>, i + 8)
    ELSE IF py /\ HasAt(s, i, <<"-", "I", "n", "f", "i", "n", "i", "t", "y">>)
    THEN Parsed(<<"float", "-inf", "/float">>, i + 9)
    ELSE ParseFail

OrElse(r, alt) == IF r.ok THEN r ELSE alt

\* dict: a repeated key keeps its place and takes the last value
Put(pairs, k, v) ==
    IF \E n \in 1..Len(pairs) : pairs[n].k = k
    THEN [n \in 1..Len(pairs) |->
            IF pairs[n].k = k THEN [k |-> k, v |-> v] ELSE pairs[n]]
    ELSE Append(pairs, [k |-> k, v |-> v])

RECURSIVE Flatten(_)
Flatten(pairs) ==
    IF pairs = <<>> THEN <<>>
    ELSE Head(pairs).k \o Head(pairs).v \o Flatten(Tail(pairs))

RECURSIVE ScanOnce(_, _, _)
RECURSIVE ScanItems(_, _, _, _)
RECURSIVE ScanMembers(_, _, _, _)

\* after an item r: "]" ends the list, "," brings the next item
ItemsNext(s, j, acc, py) ==
    IF At(s, j) = "]" THEN Parsed(<<"list">> \o acc \o <<"/list">>, j + 1)
    ELSE IF At(s, j) = "," THEN ScanItems(s, SkipWs(s, j + 1), acc, py)
    ELSE ParseFail

ItemsAfter(s, r, acc, py) ==
    IF ~r.ok THEN ParseFail ELSE ItemsNext(s, SkipWs(s, r.i), acc \o r.v, py)

ScanItems(s, i, acc, py) == ItemsAfter(s, ScanOnce(s, i, py), acc, py)

\* after a member: "}" ends the object, "," brings the next member
MembersNext(s, m, pairs, py) ==
    IF At(s, m) = "}" THEN Parsed(<<"dict">> \o Flatten(pairs) \o <<"/dict">>, m + 1)
    ELSE IF At(s, m) = "," THEN ScanMembers(s, SkipWs(s, m + 1), pairs, py)
    ELSE ParseFail

MemberValue(s, k, r, pairs, py) ==
    IF ~r.ok THEN ParseFail
    ELSE MembersNext(s, SkipWs(s, r.i), Put(pairs, k.v, r.v), py)

MemberColon(s, k, c, pairs, py) ==
    IF At(s, c) # ":" THEN ParseFail
    ELSE MemberValue(s, k, ScanOnce(s, SkipWs(s, c + 1), py), pairs, py)

MemberKey(s, k, pairs, py) ==
    IF ~k.ok THEN ParseFail ELSE MemberColon(s, k, SkipWs(s, k.i), pairs, py)

ScanMembers(s, i, pairs, py) ==
    IF At(s, i) # "\"" THEN ParseFail
    ELSE MemberKey(s, ScanString(s, i), pairs, py)

OpenDict(s, j, py) ==
    IF At(s, j) = "}" THEN Parsed(<<"dict", "/dict">>, j + 1)
    ELSE ScanMembers(s, j, <<>>, py)

OpenList(s, j, py) ==
    IF At(s, j) = "]" THEN Parsed(<<"list", "/list">>, j + 1)
    ELSE ScanItems(s, j, <<>>, py)

ScanOnce(s, i, py) ==
    IF At(s, i) = "" THEN ParseFail
    ELSE IF At(s, i) = "\"" THEN ScanString(s, i)
    ELSE IF At(s, i) = "{" THEN OpenDict(s, SkipWs(s, i + 1), py)
    ELSE IF At(s, i) = "[" THEN OpenList(s, SkipWs(s, i + 1), py)
    ELSE IF HasAt(s, i, <<"n", "u", "l", "l">>) THEN Parsed(<<"None">>, i + 4)
    ELSE IF HasAt(s, i, <<"t", "r", "u", "e">>) THEN Parsed(<<"True">>, i + 4)
    ELSE IF HasAt(s, i, <<"f", "a", "l", "s", "e">>) THEN Parsed(<<"False">>, i + 5)
    ELSE OrElse(ScanNumber(s, i), ScanConstant(s, i, py))

\* the value starting at the first character after leading white space
\* must end where only white space follows
WholeText(text, r) ==
    IF r.ok /\ SkipWs(text, r.i) = Len(text) + 1
    THEN [ok |-> TRUE, value |-> r.v]
    ELSE [ok |-> FALSE, value |-> <<>>]

\* JSONDecoder.decode: leading white space, one value, trailing white space,
\* then the end of the text; ok = FALSE stands for json.JSONDecodeError
JsonParse(text, py) == WholeText(text, ScanOnce(text, SkipWs(text, 1), py))

JsonLoads(text) == JsonParse(text, TRUE)

NoRet == [kind |-> "None", text |-> <<>>]

NoCall == [cmd |-> "", id |-> 0, pre |-> "None", preFault |-> FALSE,
           preFailed |-> FALSE, wrote |-> 0, read |-> 0, outcome |-> "nocall",
           ret |-> NoRet, reply |-> <<>>, out |-> <<>>,
           prevOutcome |-> "nocall", prevRet |-> NoRet]

----------------------------------------------------------------------------
\* Return of send_command to its caller: main() goes on to its next
\* statement whatever the value returned.

ReturnToCallerAbortOnFailure ==
    IF pc = "call"
    THEN /\ step' = step + 1
         /\ pc' = IF cur'.ret.kind = "None" THEN "finally"
                  ELSE IF step \in SleepAfter THEN "sleep"
                  ELSE IF step = Len(Steps) THEN "finally"
                  ELSE "call"
         /\ UNCHANGED <<intr, exitCode>>
    ELSE UNCHANGED mainvars

ReturnToCaller ==
    IF pc = "call"
    THEN /\ step' = step + 1
         /\ pc' = IF step \in SleepAfter THEN "sleep"
                  ELSE IF step = Len(Steps) THEN "finally"
                  ELSE "call"
         /\ UNCHANGED <<intr, exitCode>>
    ELSE UNCHANGED mainvars

----------------------------------------------------------------------------
\* GeneratorClient.connect.  outcome is what the operating system does:
\*   "nosock"  socket.socket() raises: self.socket is not assigned;
\*   "refused" socket.connect() raises (refused, unreachable, timed out):
\*             self.socket already holds the new, unconnected socket object;
\*   "ok"      the connection is established.

ConnectOutcomes == {"ok", "refused", "nosock"}

connect(outcome) ==
    /\ connectFailed' = (outcome # "ok")
    /\ IF outcome = "nosock"
       THEN UNCHANGED <<socket, faulted, netvars>>
       ELSE /\ socket' = IF outcome = "ok" THEN "connected" ELSE "fresh"
            /\ link' = IF outcome = "ok" THEN "up" ELSE "down"
            /\ unanswered' = <<>>
            /\ wire' = <<>>
            /\ rcvbuf' = <<>>
            /\ faulted' = FALSE

\* GeneratorClient.send_command, from its entry to the return of socket.send.
\* "if not self.socket" tests the attribute only: a socket object is true
\* whether it is connected, unconnected or closed.
SendCommandEnter(cmd) ==
    /\ sc = "idle"
    /\ issued' = Append(issued, cmd)
    /\ UNCHANGED <<socket, wire, rcvbuf, closeCalls, sockCloses, lastClose, connectFailed>>
    /\ LET call == [NoCall EXCEPT !.cmd = cmd, !.pre = socket,
                                  !.preFault = faulted,
                                  !.preFailed = connectFailed,
                                  !.prevOutcome = cur.outcome,
                                  !.prevRet = cur.ret,
                                  !.outcome = "pending"]
       IN
       IF socket = "None"
       THEN \* print("Not connected"); return None
            /\ cur' = [call EXCEPT !.outcome = "notconnected",
                                   !.out = <<"notconnected">>]
            /\ UNCHANGED <<sc, nwritten, unanswered, link, faulted>>
            /\ ReturnToCaller
       ELSE IF socket = "connected" /\ link = "up"
       THEN \* the command is written; the call goes on to recv
            /\ nwritten' = nwritten + 1
            /\ cur' = [call EXCEPT !.id = nwritten + 1, !.wrote = 1,
                                   !.out = <<"command">>]
            /\ unanswered' = Append(unanswered, nwritten + 1)
            /\ sc' = "recv"
            /\ UNCHANGED <<link, faulted, mainvars>>
       ELSE IF socket = "connected" /\ link = "eof"
       THEN \* the peer has closed: the write is accepted locally and the
            \* peer answers it with a reset
            /\ nwritten' = nwritten + 1
            /\ cur' = [call EXCEPT !.id = nwritten + 1, !.wrote = 1,
                                   !.out = <<"command">>]
            /\ link' = "reset"
            /\ sc' = "recv"
            /\ UNCHANGED <<unanswered, faulted, mainvars>>
       ELSE \* socket.send raises OSError: the connection is reset, or the
            \* socket object is unconnected or closed; except Exception
            /\ cur' = [call EXCEPT !.wrote = 1, !.outcome = "io",
                                   !.out = <<"command", "error">>]
            /\ faulted' = (faulted \/ socket = "connected")
            /\ UNCHANGED <<sc, nwritten, unanswered, link>>
            /\ ReturnToCaller

\* The Python object json.loads returns: the JSON literal null is None
PyValue(value) ==
    IF value = <<"None">> THEN NoRet ELSE [kind |-> "json", text |-> value]

\* The value send_command returns for the bytes recv delivered
Decode(bytes) ==
    LET d == Utf8Decode(bytes)
        j == JsonLoads(d.text)
    IN  IF ~d.ok THEN [outcome |-> "decode", ret |-> NoRet]
        ELSE IF j.ok THEN [outcome |-> "structured", ret |-> PyValue(j.value)]
        ELSE [outcome |-> "unstructured",
              ret |-> [kind |-> "str", text |-> d.text]]

\* What send_command prints once recv has returned or raised: the response
\* and, when it is not JSON, a warning; or the error of the except clause
Printed(outcome) ==
    IF outcome = "structured" THEN <<"response">>
    ELSE IF outcome = "unstructured" THEN <<"response", "warning">>
    ELSE <<"error">>

RecvDataUntilComplete ==
    /\ sc = "recv"
    /\ link \in {"up", "eof"}
    /\ rcvbuf # <<>>
    /\ LET n == Min(Len(rcvbuf), BUFSIZE)
           data == cur.reply \o SubSeq(rcvbuf, 1, n)
           r == Decode(Bytes(data))
       IN  /\ rcvbuf' = SubSeq(rcvbuf, n + 1, Len(rcvbuf))
           /\ cur' = [cur EXCEPT !.read = @ + 1, !.reply = data,
                                 !.outcome = IF r.outcome = "structured" \/ wire = <<>>
                                             THEN r.outcome ELSE "pending",
                                 !.ret = r.ret]
           /\ IF r.outcome = "structured" \/ wire = <<>>
              THEN sc' = "idle" /\ ReturnToCaller
              ELSE sc' = "recv" /\ UNCHANGED mainvars
    /\ UNCHANGED <<socket, link, unanswered, wire, nwritten, issued, faulted,
                   closeCalls, sockCloses, lastClose, connectFailed, ncalls>>

\* socket.recv returns the buffered bytes, at most BUFSIZE of them
RecvData ==
    /\ sc = "recv"
    /\ link \in {"up", "eof"}
    /\ rcvbuf # <<>>
    /\ LET n == Min(Len(rcvbuf), BUFSIZE)
           data == SubSeq(rcvbuf, 1, n)
           r == Decode(Bytes(data))
       IN  /\ rcvbuf' = SubSeq(rcvbuf, n + 1, Len(rcvbuf))
           /\ cur' = [cur EXCEPT !.read = @ + 1, !.reply = data,
                                 !.outcome = r.outcome, !.ret = r.ret,
                                 !.out = @ \o Printed(r.outcome)]
    /\ sc' = "idle"
    /\ ReturnToCaller
    /\ UNCHANGED <<socket, link, unanswered, wire, nwritten, issued, faulted,
                   closeCalls, sockCloses, lastClose, connectFailed, ncalls>>

\* settimeout(5.0): nothing arrived within the timeout, recv raises
\* socket.timeout, caught by except Exception
RecvTimeout ==
    /\ sc = "recv"
    /\ link = "up" \/ (link = "eof" /\ wire # <<>>)
    /\ rcvbuf = <<>>
    /\ cur' = [cur EXCEPT !.read = @ + 1, !.outcome = "timeout",
                          !.out = @ \o Printed("timeout")]
    /\ sc' = "idle"
    /\ ReturnToCaller
    /\ UNCHANGED <<socket, netvars, nwritten, issued, faulted,
                   closeCalls, sockCloses, lastClose, connectFailed, ncalls>>

\* the connection was reset: recv raises ConnectionResetError
RecvFault ==
    /\ sc = "recv"
    /\ link = "reset"
    /\ cur' = [cur EXCEPT !.read = @ + 1, !.outcome = "io",
                          !.out = @ \o Printed("io")]
    /\ faulted' = TRUE
    /\ sc' = "idle"
    /\ ReturnToCaller
    /\ UNCHANGED <<socket, netvars, nwritten, issued,
                   closeCalls, sockCloses, lastClose, connectFailed, ncalls>>

\* the peer closed the stream and nothing is left to read: recv returns b''
RecvEof ==
    /\ sc = "recv"
    /\ link = "eof"
    /\ rcvbuf = <<>>
    /\ wire = <<>>
    /\ LET r == Decode(<<>>)
       IN  cur' = [cur EXCEPT !.read = @ + 1, !.reply = <<>>,
                              !.outcome = r.outcome, !.ret = r.ret,
                              !.out = @ \o Printed(r.outcome)]
    /\ sc' = "idle"
    /\ ReturnToCaller
    /\ UNCHANGED <<socket, netvars, nwritten, issued, faulted,
                   closeCalls, sockCloses, lastClose, connectFailed, ncalls>>

NoClose == [pre |-> "None", released |-> 0, raised |-> FALSE]

\* socket.close() releases the operating system's socket when the socket
\* object is not closed yet; on a closed socket object it does nothing
Releases(sock) == IF sock \in {"fresh", "connected"} THEN 1 ELSE 0

closeWithoutGuard ==
    /\ closeCalls' = closeCalls + 1
    /\ lastClose' = [pre |-> socket, released |-> Releases(socket),
                     raised |-> (socket = "None")]
    /\ IF socket # "None"
       THEN /\ sockCloses' = sockCloses + 1
            /\ socket' = "closed"
            /\ link' = "down"
            /\ unanswered' = <<>>
            /\ wire' = <<>>
            /\ rcvbuf' = <<>>
       ELSE UNCHANGED <<sockCloses, socket, netvars>>

\* GeneratorClient.close: the attribute is tested, never reset
close ==
    /\ closeCalls' = closeCalls + 1
    /\ lastClose' = [pre |-> socket, released |-> Releases(socket),
                     raised |-> FALSE]
    /\ IF socket # "None"
       THEN /\ sockCloses' = sockCloses + 1
            /\ socket' = "closed"
            /\ link' = "down"
            /\ unanswered' = <<>>
            /\ wire' = <<>>
            /\ rcvbuf' = <<>>
       ELSE UNCHANGED <<sockCloses, socket, netvars>>

----------------------------------------------------------------------------
\* The engine and the network

Backlog == Len(wire) + Len(rcvbuf)

\* the engine answers the oldest unanswered command
EngineReply ==
    /\ link = "up"
    /\ unanswered # <<>>
    /\ \E p \in Replies :
         /\ Backlog + Len(p) <= MaxBacklog
         /\ wire' = wire \o Tagged(Head(unanswered), p)
    /\ unanswered' = Tail(unanswered)
    /\ UNCHANGED <<socket, link, rcvbuf, nwritten, sc, cur, issued, faulted,
                   closeCalls, sockCloses, lastClose, connectFailed, mainvars, ncalls>>

\* some of the bytes in flight arrive at the client
Deliver ==
    /\ link \in {"up", "eof"}
    /\ wire # <<>>
    /\ \E n \in 1..Len(wire) :
         /\ rcvbuf' = rcvbuf \o SubSeq(wire, 1, n)
         /\ wire' = SubSeq(wire, n + 1, Len(wire))
    /\ UNCHANGED <<socket, link, unanswered, nwritten, sc, cur, issued, faulted,
                   closeCalls, sockCloses, lastClose, connectFailed, mainvars, ncalls>>

\* the connection breaks: unread data is discarded
LinkReset ==
    /\ link = "up"
    /\ link' = "reset"
    /\ wire' = <<>>
    /\ rcvbuf' = <<>>
    /\ UNCHANGED <<socket, unanswered, nwritten, sc, cur, issued, faulted,
                   closeCalls, sockCloses, lastClose, connectFailed, mainvars, ncalls>>

\* the engine closes its end of the connection
PeerClose ==
    /\ link = "up"
    /\ link' = "eof"
    /\ UNCHANGED <<socket, unanswered, wire, rcvbuf, nwritten, sc, cur, issued,
                   faulted, closeCalls, sockCloses, lastClose, connectFailed, mainvars,
                   ncalls>>

----------------------------------------------------------------------------
\* main()

MainConnectIgnoreResult ==
    /\ pc = "connect"
    /\ \E outcome \in ConnectOutcomes :
         /\ connect(outcome)
         /\ pc' = "call" /\ exitCode' = exitCode
    /\ UNCHANGED <<nwritten, sc, cur, issued, closeCalls, sockCloses, lastClose,
                   step, intr, ncalls>>

\* client = GeneratorClient(); if not client.connect(): sys.exit(1)
MainConnect ==
    /\ pc = "connect"
    /\ \E outcome \in ConnectOutcomes :
         /\ connect(outcome)
         /\ IF outcome = "ok"
            THEN pc' = "call" /\ exitCode' = exitCode
            ELSE pc' = "exit" /\ exitCode' = 1
    /\ UNCHANGED <<nwritten, sc, cur, issued, closeCalls, sockCloses, lastClose,
                   step, intr, ncalls>>

\* client.send_command(Steps[step])
MainStep ==
    /\ pc = "call"
    /\ step <= Len(Steps)
    /\ SendCommandEnter(Steps[step])
    /\ UNCHANGED ncalls

\* time.sleep(...)
MainSleep ==
    /\ pc = "sleep"
    /\ pc' = "call"
    /\ UNCHANGED <<socket, netvars, nwritten, sc, cur, issued, faulted,
                   closeCalls, sockCloses, lastClose, connectFailed, step, intr,
                   exitCode, ncalls>>

InterruptSwallowed ==
    /\ pc \in {"call", "sleep"}
    /\ intr' = TRUE
    /\ IF sc = "recv"
       THEN /\ cur' = [cur EXCEPT !.outcome = "io"]
            /\ sc' = "idle"
            /\ step' = step + 1
            /\ pc' = IF step \in SleepAfter THEN "sleep"
                     ELSE IF step = Len(Steps) THEN "finally"
                     ELSE "call"
       ELSE /\ pc' = "except"
            /\ UNCHANGED <<sc, cur, step>>
    /\ UNCHANGED <<socket, netvars, nwritten, issued, faulted, closeCalls,
                   sockCloses, lastClose, connectFailed, exitCode, ncalls>>

\* KeyboardInterrupt raised inside the try body.  It is not an Exception, so
\* the handler of send_command does not catch it: a call blocked in recv is
\* abandoned without a return value.
Interrupt ==
    /\ pc \in {"call", "sleep"}
    /\ intr' = TRUE
    /\ pc' = "except"
    /\ sc' = "idle"
    /\ cur' = IF sc = "recv" THEN [cur EXCEPT !.outcome = "interrupted"] ELSE cur
    /\ UNCHANGED <<socket, netvars, nwritten, issued, faulted, closeCalls,
                   sockCloses, lastClose, connectFailed, step, exitCode, ncalls>>

MainExceptResume ==
    /\ pc = "except"
    /\ pc' = IF step <= Len(Steps) THEN "call" ELSE "finally"
    /\ UNCHANGED <<socket, netvars, nwritten, sc, cur, issued, faulted,
                   closeCalls, sockCloses, lastClose, connectFailed, step, intr,
                   exitCode, ncalls>>

\* except KeyboardInterrupt: print(...)
MainExcept ==
    /\ pc = "except"
    /\ pc' = "finally"
    /\ UNCHANGED <<socket, netvars, nwritten, sc, cur, issued, faulted,
                   closeCalls, sockCloses, lastClose, connectFailed, step, intr,
                   exitCode, ncalls>>

MainFinallyCloseInTryBody ==
    /\ pc = "finally"
    /\ IF intr
       THEN UNCHANGED <<socket, netvars, closeCalls, sockCloses, lastClose>>
       ELSE close
    /\ pc' = "done"
    /\ exitCode' = 0
    /\ UNCHANGED <<nwritten, sc, cur, issued, faulted, connectFailed,
                   step, intr, ncalls>>

\* finally: client.close()
MainFinally ==
    /\ pc = "finally"
    /\ close
    /\ pc' = "done"
    /\ exitCode' = 0
    /\ UNCHANGED <<nwritten, sc, cur, issued, faulted, connectFailed,
                   step, intr, ncalls>>

----------------------------------------------------------------------------
\* A caller of the GeneratorClient API

ApiConnect ==
    /\ pc = "api" /\ sc = "idle" /\ ncalls < MaxCalls
    /\ \E outcome \in ConnectOutcomes : connect(outcome)
    /\ ncalls' = ncalls + 1
    /\ UNCHANGED <<nwritten, sc, cur, issued, closeCalls, sockCloses, lastClose, mainvars>>

ApiSendCommand ==
    /\ pc = "api" /\ ncalls < MaxCalls
    /\ \E cmd \in ApiCommands : SendCommandEnter(cmd)
    /\ ncalls' = ncalls + 1

ApiClose ==
    /\ pc = "api" /\ sc = "idle" /\ ncalls < MaxCalls
    /\ close
    /\ ncalls' = ncalls + 1
    /\ UNCHANGED <<nwritten, sc, cur, issued, faulted, connectFailed, mainvars>>

----------------------------------------------------------------------------

Init ==
    /\ socket = "None"
    /\ link = "down"
    /\ unanswered = <<>>
    /\ wire = <<>>
    /\ rcvbuf = <<>>
    /\ nwritten = 0
    /\ sc = "idle"
    /\ cur = NoCall
    /\ issued = <<>>
    /\ faulted = FALSE
    /\ closeCalls = 0
    /\ sockCloses = 0
    /\ lastClose = NoClose
    /\ connectFailed = FALSE
    /\ pc = "connect"
    /\ step = 1
    /\ intr = FALSE
    /\ exitCode = -1
    /\ ncalls = 0

Next ==
    \/ MainConnect
    \/ MainStep
    \/ RecvData
    \/ RecvTimeout
    \/ RecvFault
    \/ RecvEof
    \/ MainSleep
    \/ Interrupt
    \/ MainExcept
    \/ MainFinally
    \/ EngineReply
    \/ Deliver
    \/ LinkReset
    \/ PeerClose

Spec == Init /\ [][Next]_vars

ApiInit ==
    /\ socket = "None"
    /\ link = "down"
    /\ unanswered = <<>>
    /\ wire = <<>>
    /\ rcvbuf = <<>>
    /\ nwritten = 0
    /\ sc = "idle"
    /\ cur = NoCall
    /\ issued = <<>>
    /\ faulted = FALSE
    /\ closeCalls = 0
    /\ sockCloses = 0
    /\ lastClose = NoClose
    /\ connectFailed = FALSE
    /\ pc = "api"
    /\ step = 1
    /\ intr = FALSE
    /\ exitCode = -1
    /\ ncalls = 0

ApiNext ==
    \/ ApiConnect
    \/ ApiSendCommand
    \/ ApiClose
    \/ RecvData
    \/ RecvTimeout
    \/ RecvFault
    \/ RecvEof
    \/ EngineReply
    \/ Deliver
    \/ LinkReset
    \/ PeerClose

ApiSpec == ApiInit /\ [][ApiNext]_vars

----------------------------------------------------------------------------
\* Decoding of one reply: a send_command blocked in recv with the reply in
\* the receive buffer.  The replies are these documents and every contiguous
\* part of them (a reply cut short, or the rest of one).

\* the reply of the spec's round-trip example
DocStatus ==
    <<"{", "\"", "s", "t", "a", "t", "e", "\"", ":", "\"", "r", "u", "n",
      "n", "i", "n", "g", "\"", ",", "\"", "l", "o", "a", "d", "\"", ":",
      "5", "0", "}">>

\* a plain-text reply
DocOK ==
    <<"O", "K">>

\* the JSON literal null
DocNull ==
    <<"n", "u", "l", "l">>

\* not JSON, but accepted by json.loads
DocNaN ==
    <<"N", "a", "N">>

\* a JSON string with a two-byte character
DocAccent ==
    <<"\"", "C3", "A9", "\"">>

\* a list with white space
DocList ==
    <<" ", "[", "1", ",", " ", "5", "]", " ">>

\* two replies read as one
DocTwo ==
    <<"{", "}", "{", "}">>

\* an object with a repeated key
DocRepeat ==
    <<"{", "\"", "a", "\"", ":", "1", ",", "\"", "a", "\"", ":", "5", "}">>

Docs == {DocStatus, DocOK, DocNull, DocNaN, DocAccent, DocList, DocTwo, DocRepeat}

Parts(d) == {SubSeq(d, a, b) : a \in 1..Len(d), b \in 1..Len(d)} \ {<<>>}

Inputs == UNION {Parts(d) : d \in Docs}

DecodeInit ==
    /\ socket = "connected"
    /\ \E input \in Inputs \cup {<<>>} :
         /\ rcvbuf = Tagged(1, input)
         /\ link = IF input = <<>> THEN "eof" ELSE "up"
    /\ unanswered = <<>>
    /\ wire = <<>>
    /\ nwritten = 1
    /\ sc = "recv"
    /\ cur = [NoCall EXCEPT !.cmd = "status", !.id = 1, !.pre = "connected",
                            !.wrote = 1, !.outcome = "pending",
                            !.out = <<"command">>]
    /\ issued = <<"status">>
    /\ faulted = FALSE
    /\ closeCalls = 0
    /\ sockCloses = 0
    /\ lastClose = NoClose
    /\ connectFailed = FALSE
    /\ pc = "api"
    /\ step = 1
    /\ intr = FALSE
    /\ exitCode = -1
    /\ ncalls = 2

DecodeNext ==
    \/ RecvData
    \/ RecvEof

DecodeSpec == DecodeInit /\ [][DecodeNext]_vars

TypeOK ==
    /\ socket \in {"None", "fresh", "connected", "closed"}
    /\ link \in {"down", "up", "reset", "eof"}
    /\ sc \in {"idle", "recv"}
    /\ pc \in {"connect", "exit", "call", "sleep", "except", "finally", "done", "api"}
    /\ step \in 1..(Len(Steps) + 1)
    /\ Backlog <= MaxBacklog

----------------------------------------------------------------------------
\* Properties

IsPrefix(s, t) == Len(s) <= Len(t) /\ s = SubSeq(t, 1, Len(s))

Returned == cur.outcome \notin {"nocall", "pending", "interrupted"}

NoIO == cur.wrote = 0 /\ cur.read = 0

\* C1: when connect() fails, main() sends no command at all (send_command is
\* never called and nothing is written) and ends with exit status 1.
C1_NoCommandAfterFailedConnect ==
    connectFailed =>
        /\ pc = "exit" /\ exitCode = 1
        /\ issued = <<>> /\ nwritten = 0 /\ cur = NoCall

C1_Witness == connectFailed /\ socket = "fresh" /\ pc = "exit"

\* C2: after a successful connect and without an interrupt, main() issues
\* exactly the eight commands of Steps in order, each one only when no
\* send_command is in progress, and it goes on to the next step whatever the
\* step returned.
C2_EightCommandsInOrder ==
    /\ [](/\ IsPrefix(issued, Steps)
          /\ (pc \in {"call", "sleep"} => Len(issued) = step - 1 + (IF sc = "recv" THEN 1 ELSE 0))
          /\ (pc \in {"finally", "done"} /\ ~intr => issued = Steps))
    /\ [][issued' # issued => (sc = "idle" /\ cur.outcome # "pending")]_vars

C2_Witness ==
    pc = "done" /\ ~intr /\ issued = Steps /\ faulted /\ cur.outcome = "io"

\* C3: however the command sequence of main() ends (all steps done, steps
\* failed, KeyboardInterrupt), close() has been called exactly once when
\* main() is finished, and never before the sequence has ended.
C3_CloseExactlyOnce ==
    /\ closeCalls <= 1
    /\ (pc = "done" => closeCalls = 1 /\ sockCloses = 1)
    /\ (pc \in {"call", "sleep", "except", "finally"} => closeCalls = 0)

C3_Witness ==
    pc = "done" /\ closeCalls = 1 /\ cur.outcome = "timeout" /\ step = Len(Steps) + 1

\* C4: send_command on a Session that was never connected (no socket) or
\* that has been closed returns not-connected and attempts neither a write
\* nor a read.
C4_NotConnectedWithoutIO ==
    (Returned /\ cur.pre \in {"None", "closed"}) =>
        (NoIO /\ cur.outcome = "notconnected")

\* C5: once a send or a receive on the connected Session has raised an I/O
\* fault, every later send_command behaves as not-connected and attempts
\* neither a write nor a read.
C5_ClosedAfterFault ==
    (Returned /\ cur.preFault) => (NoIO /\ cur.outcome = "notconnected")

\* C6: a send_command issued after a failed connect() returns not-connected
\* and attempts neither a write nor a read.
C6_FailedConnectLeavesUnconnected ==
    (Returned /\ cur.preFailed) => (NoIO /\ cur.outcome = "notconnected")

\* C7: the bytes a send_command returns are bytes of the engine's reply to
\* the command that call wrote, never of the reply to an earlier command.
C7_ReplyAnswersItsCommand ==
    cur.outcome \in {"structured", "unstructured"} =>
        \A i \in 1..Len(cur.reply) : cur.reply[i].c = cur.id

\* C8: a command is written to the connection only when no earlier command
\* is still unanswered by the engine.
C8_AtMostOneOutstanding ==
    [][nwritten' # nwritten => unanswered = <<>>]_vars

\* C9: once KeyboardInterrupt has been raised no further command is issued
\* or written, main() goes to its handler, and when main() is finished
\* close() has been called exactly once.
C9_InterruptAbortsAndCloses ==
    /\ [][intr => (issued' = issued /\ nwritten' = nwritten)]_vars
    /\ [](intr => pc \in {"except", "finally", "done"})
    /\ [](intr /\ pc = "done" => closeCalls = 1)

\* an interrupt between the third command (status) and set_load 50
C9_Witness ==
    /\ intr /\ pc = "done" /\ closeCalls = 1
    /\ issued = SubSeq(Steps, 1, 3) /\ Returned

\* C10 as stated: KeyboardInterrupt is raised only between steps, never while
\* send_command is blocked in recv.
C10_InterruptOnlyBetweenSteps ==
    [][(~intr /\ intr') => sc = "idle"]_vars

\* C10 amended: KeyboardInterrupt is also raised while send_command is
\* blocked in recv; send_command does not catch it: the call is abandoned
\* without having read and without a return value, main() goes straight to
\* its handler and issues no further command.
C10_InterruptCutsExchangeShort ==
    [][(~intr /\ intr') =>
          /\ pc' = "except" /\ sc' = "idle"
          /\ issued' = issued /\ step' = step
          /\ (sc = "recv" => /\ cur'.outcome = "interrupted"
                              /\ cur'.read = 0 /\ cur'.ret = NoRet)]_vars

C10_Witness ==
    intr /\ pc = "done" /\ cur.outcome = "interrupted" /\ cur.wrote = 1

\* C11: close() never raises; a close() on a Session that is already closed
\* or was never connected releases nothing and leaves the Session as it is,
\* so the operating system's socket is released by the first close() only.
C11_CloseIdempotent ==
    /\ [](closeCalls > 0 =>
            /\ ~lastClose.raised
            /\ (lastClose.pre \in {"None", "closed"} => lastClose.released = 0))
    /\ [][(closeCalls' # closeCalls /\ socket \in {"None", "closed"}) =>
            (socket' = socket /\ lastClose'.released = 0 /\ UNCHANGED netvars)]_vars

C11_Witness ==
    closeCalls = 2 /\ sockCloses = 2 /\ lastClose.pre = "closed" /\ lastClose.released = 0

\* C12: a send_command on a connected Session calls socket.send exactly once
\* and socket.recv at most once: not at all when the send raised, once when
\* it has returned after a successful send, never a second time.
C12_OneWriteAtMostOneRead ==
    (cur.outcome # "nocall" /\ cur.pre = "connected") =>
        /\ cur.wrote = 1
        /\ cur.read <= 1
        /\ (cur.id = 0 => cur.read = 0)
        /\ (Returned /\ cur.id # 0 => cur.read = 1)
        /\ (sc = "recv" => cur.read = 0)

\* a call that returned one byte of a two-byte reply while the rest was
\* still on its way
C12_Witness ==
    /\ Returned /\ cur.pre = "connected" /\ cur.read = 1
    /\ Len(cur.reply) = 1 /\ wire # <<>> /\ wire[1].c = cur.id

\* The JSON grammar (RFC 8259): the scanner without the constants that only
\* json.loads accepts
ValidJson(text) == JsonParse(text, FALSE).ok

\* the mapping state = running, load = 50
StatusValue ==
    <<"dict", "str", "s", "t", "a", "t", "e", "/str",
              "str", "r", "u", "n", "n", "i", "n", "g", "/str",
              "str", "l", "o", "a", "d", "/str", "int", "5", "0", "/int",
      "/dict">>

Received == Bytes(cur.reply)

ReceivedText == Utf8Decode(Received).text

GotBytes == Returned /\ cur.read = 1 /\ cur.reply # <<>>

\* C13: when the received text is valid JSON, send_command returns the value
\* of that JSON (the mapping state = running, load = 50 for the reply of the
\* round-trip example); when it is not valid JSON, send_command returns the
\* text verbatim as an unstructured reply.
C13_ReplyDecoding ==
    (GotBytes /\ Utf8Decode(Received).ok) =>
        IF ValidJson(ReceivedText)
        THEN /\ cur.outcome = "structured"
             /\ cur.ret = PyValue(JsonParse(ReceivedText, FALSE).value)
             /\ (Received = DocStatus => cur.ret.text = StatusValue)
        ELSE /\ cur.outcome = "unstructured"
             /\ cur.ret = [kind |-> "str", text |-> ReceivedText]

\* C14: two failed send_command calls that failed in different ways
\* (not connected, timeout, I/O fault) return different values.
C14_FailuresDistinguishable ==
    (/\ Returned
     /\ cur.outcome \in {"notconnected", "timeout", "io"}
     /\ cur.prevOutcome \in {"notconnected", "timeout", "io"}
     /\ cur.outcome # cur.prevOutcome) => cur.ret # cur.prevRet

\* C15: a send_command that has returned has printed the command first and
\* then its response or its error, whatever its outcome.
C15_CommandThenOutcomeReported ==
    Returned =>
        /\ Len(cur.out) >= 2
        /\ cur.out[1] = "command"
        /\ cur.out[2] \in {"response", "error", "notconnected"}

\* C16: received bytes that are not a complete JSON document, such as a
\* reply cut short at any byte, are returned as an unstructured reply with
\* their text, never as an error.
C16_PartialReplyUnstructured ==
    (GotBytes /\ ~(Utf8Decode(Received).ok /\ ValidJson(ReceivedText))) =>
        /\ cur.outcome = "unstructured"
        /\ cur.ret.kind = "str"
        /\ (Utf8Decode(Received).ok => cur.ret.text = ReceivedText)

\* C17: a recv that returns zero bytes is never reported as a decoded reply,
\* structured or unstructured.
C17_ZeroBytesIsAbsent ==
    (Returned /\ cur.read = 1 /\ cur.reply = <<>>) =>
        (cur.outcome \notin {"structured", "unstructured"} /\ cur.ret = NoRet)

\* C18: send_command returns None only for a failed exchange: a reply that
\* was received and decoded, structured or unstructured, is never None.
C18_NoneOnlyOnFailure ==
    (Returned /\ cur.outcome \in {"structured", "unstructured"}) => cur.ret # NoRet

====
